---- MODULE Spec2Model ----
(***************************************************************************)
(* Soft Actor-Critic training orchestrator (dl/algorithms/sac.py), the     *)
(* checkpointer it saves through (dl/util/ckptr.py), also driven alone as  *)
(* its unit test drives it, and the rollout storage (dl/util/rollout.py).  *)
(*                                                                         *)
(* A network is a list of NParams parameters; a parameter is an integer in *)
(* fixed-point units (one gradient step of size 1.0 is Unit units), so the *)
(* Polyak blend with tau = 1/2 or 1 is computed exactly.  An optimizer     *)
(* state is the number of steps the optimizer has taken.  The gradients,   *)
(* losses and tensor shapes of one update are inputs of step(): they are   *)
(* functions of the sampled batch and of the network architecture.         *)
(* Logging (self.losses, self.t_start, logger) is not modelled.             *)
(***************************************************************************)
EXTENDS Integers, Sequences, FiniteSets, TLC

\* ---------------------------------------------------------------- bounds
MaxT == 3          \* step() is not called once t has reached MaxT
MaxStarts == 2     \* greatest learning_starts
MaxSize == 3       \* greatest buffer_size
MaxPeriod == 2     \* greatest update / target-update / policy-update period
MaxAlphaSteps == 3 \* step() is not called once opt_alpha has taken MaxAlphaSteps steps
MaxFiles == 2      \* save() is not called once the disk holds MaxFiles checkpoints
BatchRows == 2     \* rows B of a sampled batch
NParams == 2       \* parameter tensors per network
MaxStep == 4       \* greatest step the Checkpointer driver saves at
MaxKeep == 2       \* greatest max_ckpts_to_keep of the Checkpointer driver
MaxCkptPeriod == 3 \* greatest min_ckpt_period of the Checkpointer driver
MaxNumSteps == 3   \* greatest num_steps of a RolloutStorage
MaxProcs == 2      \* greatest num_processes of a RolloutStorage
MaxWindows == 2
MaxInserts == 6    \* insert() is not called once MaxInserts calls have returned

\* ------------------------------------------------------ program constants
FormatWidth == 9   \* format='{:09d}'
NormPeriod == 128  \* self.t % 128

\* None is the empty list; a present value v is <<v>> (log_alpha is a tensor of
\* one element, which is how the code holds it)
None == <<>>

VARIABLES
    cfg,        \* constructor arguments of SAC and of its Checkpointer
    pi, qf1, qf2, vf, target_vf,              \* parameters of the networks
    opt_pi, opt_qf1, opt_qf2, opt_vf,         \* optimizer states
    log_alpha, opt_alpha,                     \* temperature and its optimizer
    t,                                        \* step counter
    buffer,                                   \* replay buffer
    running_norm,                             \* pi.running_norm.count
    ob,                                       \* self._ob: "reset" or "step"
    ckpt_files,                               \* ckptdir/*.pt : file name -> content
    buffer_npz,                               \* ckptdir/buffer.npz, or None
    last,                                     \* what the last call did
    saved,      \* history: step -> save_dict of every successful Checkpointer.save
    loaded,     \* what the last Checkpointer.load returned, or None
    rollout,    \* a RolloutStorage, or None
    gen,        \* the generator object the caller holds, or None
    yielded     \* the batches that generator has yielded so far

vars == <<cfg, pi, qf1, qf2, vf, target_vf, opt_pi, opt_qf1, opt_qf2, opt_vf,
          log_alpha, opt_alpha, t, buffer, running_norm, ob,
          ckpt_files, buffer_npz, last, saved, loaded, rollout, gen, yielded>>

nets == <<pi, qf1, qf2, vf, target_vf, opt_pi, opt_qf1, opt_qf2, opt_vf,
          log_alpha, opt_alpha>>
disk == <<ckpt_files, buffer_npz>>
\* the state of the drivers of Checkpointer and of RolloutStorage
ckptr_driver == <<saved, loaded>>
rollout_driver == <<rollout, gen, yielded>>

\* ------------------------------------------------------------- arithmetic
Min(a, b) == IF a < b THEN a ELSE b

RECURSIVE Pow2(_)
Pow2(n) == IF n = 0 THEN 1 ELSE 2 * Pow2(n - 1)

\* fixed-point size of 1.0: fine enough for MaxT successive blends with TauDen = 2
Unit == Pow2(MaxT + 1)

Zeros == [i \in 1..NParams |-> 0]

\* Python truth value of None, of a number and of a one-element tensor
Truthy(x) == x # None /\ x[1] # 0

\* --------------------------------------------------------------- networks
\* optimizer.step() on one parameter list: p <- p - lr * grad (lr folded in grad)
OptStep(p, grad) == [i \in 1..NParams |-> p[i] - grad[i]]

\* mutant: the two weights exchanged
SoftUpdateSwapped(target_net, net, tau) ==
    [i \in 1..NParams |->
        (tau.num * target_net[i] + (tau.den - tau.num) * net[i]) \div tau.den]

\* tp.data.copy_((1. - tau) * tp.data + tau * p.data) for each zipped pair
soft_target_update(target_net, net, tau) ==
    [i \in 1..NParams |->
        ((tau.den - tau.num) * target_net[i] + tau.num * net[i]) \div tau.den]

\* ------------------------------------------------------------ the buffer
\* ReplayBuffer.store_frame / store_effect: one more transition, circularly
\* (acted is history: the transitions ever stored in this buffer)
StoreFrame(b, size) ==
    [num_in_buffer |-> Min(size, b.num_in_buffer + 1),
     next_idx      |-> (b.next_idx + 1) % size,
     acted         |-> b.acted + 1]

EmptyBuffer == [num_in_buffer |-> 0, next_idx |-> 0, acted |-> 0]

\* ----------------------------------------------------------------- act()
\* what act() reads and writes besides the policy's forward pass
ActState == [buffer |-> buffer, t |-> t, ob |-> ob, running_norm |-> running_norm]

\* SAC.act: store the frame, step the environment, reset it on done, t += 1,
\* and every NormPeriod steps feed NormPeriod observations to the normalizer
Act(s, done) ==
    LET t1 == s.t + 1 IN
    [buffer |-> StoreFrame(s.buffer, cfg.buffer_size),
     t      |-> t1,
     ob     |-> IF done THEN "reset" ELSE "step",
     running_norm |-> IF cfg.norm_obs /\ t1 % NormPeriod = 0
                      THEN s.running_norm + NormPeriod
                      ELSE s.running_norm]

\* mutant: the loop runs only while the buffer is empty
WarmingUpNoLoop(b) == b.num_in_buffer < 1

\* the condition of the while loop of step()
WarmingUp(b) == b.num_in_buffer < Min(cfg.learning_starts, cfg.buffer_size)

\* while self.buffer.num_in_buffer < min(...): self.act()   (n acts made so far)
RECURSIVE ActLoop(_, _, _)
ActLoop(s, dones, n) ==
    IF WarmingUp(s.buffer)
    THEN ActLoop(Act(s, dones[n + 1]), dones, n + 1)
    ELSE [s |-> s, acts |-> n]

\* ------------------------------------------------------------ the gates
TargetGate(tt) == tt % cfg.target_update_period = 0
UpdateGate(tt) == tt % cfg.update_period = 0
PolicyGate(tt) == tt % cfg.policy_update_period = 0

\* ------------------------------------------------------------- shapes
\* shape of an elementwise operation on two tensors of rank 1 or 2 (a
\* dimension 0 marks operands that do not broadcast)
Pad(s) == IF Len(s) = 1 THEN <<1, s[1]>> ELSE s
BroadcastDim(a, b) == IF a = b THEN a ELSE IF a = 1 THEN b ELSE IF b = 1 THEN a ELSE 0
Broadcast(s1, s2) ==
    IF Len(s1) = 1 /\ Len(s2) = 1
    THEN <<BroadcastDim(s1[1], s2[1])>>
    ELSE <<BroadcastDim(Pad(s1)[1], Pad(s2)[1]), BroadcastDim(Pad(s1)[2], Pad(s2)[2])>>

\* ---------------------------------------------------------------- loss()
\* The fields of the SAC instance, and what the call in progress has done.
Self ==
    [pi |-> pi, qf1 |-> qf1, qf2 |-> qf2, vf |-> vf, target_vf |-> target_vf,
     opt_pi |-> opt_pi, opt_qf1 |-> opt_qf1, opt_qf2 |-> opt_qf2, opt_vf |-> opt_vf,
     log_alpha |-> log_alpha, opt_alpha |-> opt_alpha,
     t |-> t, buffer |-> buffer, running_norm |-> running_norm, ob |-> ob,
     err |-> "none", acts |-> 0, soft |-> FALSE, loss |-> FALSE,
     vtarg_read |-> None, pi_loss |-> None, inputs |-> {}]

\* self.target_entropy as __init__ sets it: the argument when it is truthy,
\* else -np.prod(action_space.shape); None without adaptive temperature
TargetEntropy(c) ==
    IF ~c.automatic_entropy_tuning THEN None
    ELSE IF Truthy(c.target_entropy) THEN c.target_entropy
    ELSE <<0 - c.action_dim>>

\* alpha_loss = -(log_alpha * (logp + target_entropy).detach()).mean(), so its
\* gradient in log_alpha is -mean(logp + target_entropy); ent_gap is the sum of
\* logp + target_entropy over the rows, the learning rate taking the 1/B
AlphaGrad(b) == 0 - b.ent_gap * Unit

\* mutant: gradient ascent on alpha_loss
AlphaStepAscent(st, b) ==
    IF cfg.automatic_entropy_tuning
    THEN [st EXCEPT !.log_alpha = <<st.log_alpha[1] + AlphaGrad(b)>>,
                    !.opt_alpha = <<st.opt_alpha[1] + 1>>]
    ELSE st

\* mutant: the temperature step moved under the policy gate
AlphaStepPolicyGated(st, b) ==
    IF cfg.automatic_entropy_tuning /\ PolicyGate(st.t)
    THEN [st EXCEPT !.log_alpha = <<st.log_alpha[1] - AlphaGrad(b)>>,
                    !.opt_alpha = <<st.opt_alpha[1] + 1>>]
    ELSE st

\* the temperature step of loss(): zero_grad, backward, opt_alpha.step()
AlphaStep(st, b) ==
    IF cfg.automatic_entropy_tuning
    THEN [st EXCEPT !.log_alpha = <<st.log_alpha[1] - AlphaGrad(b)>>,
                    !.opt_alpha = <<st.opt_alpha[1] + 1>>]
    ELSE st

\* qtarg = reward_scale * rew + (1.0 - done) * gamma * vtarg
QtargShape(b) == Broadcast(b.rew_shape, Broadcast(b.rew_shape, b.v_shape))

\* the assertions of loss(), in order: "none" when all hold
LossAsserts(b, tt) ==
    IF QtargShape(b) # b.q_shape THEN "AssertionError"
    ELSE IF b.v_shape # Broadcast(b.q_shape, b.logp_shape) THEN "AssertionError"
    ELSE IF PolicyGate(tt) /\ cfg.rsample /\ b.q_shape # b.logp_shape
         THEN "AssertionError"
    ELSE IF PolicyGate(tt) /\ ~cfg.rsample
            /\ Broadcast(b.q_shape, b.v_shape) # b.logp_shape
         THEN "AssertionError"
    ELSE "none"

\* the forward passes of loss() under configuration c: the network called,
\* the batch column it is given, and whether that column went through
\* self.pi.running_norm before the call.  "if self.norm_obs:" rebinds ob
\* before the critics and the value network read it; next_ob is never rebound.
LossInputs(c) ==
    {[net |-> "pi", column |-> "ob", normed |-> FALSE],
     [net |-> "qf1", column |-> "ob", normed |-> c.norm_obs],
     [net |-> "qf2", column |-> "ob", normed |-> c.norm_obs],
     [net |-> "vf", column |-> "ob", normed |-> c.norm_obs],
     [net |-> "target_vf", column |-> "next_ob", normed |-> FALSE]}

\* SAC.loss on batch b: the forward passes, the temperature step, the read of
\* target_vf, the assertions, and the policy loss when the policy gate is open
Loss(st, b) ==
    LET st1 == AlphaStep(st, b)
        st2 == [st1 EXCEPT !.loss = TRUE, !.vtarg_read = <<st1.target_vf>>,
                           !.inputs = LossInputs(cfg)]
    IN  [st2 EXCEPT !.err = LossAsserts(b, st.t),
                    !.pi_loss = IF PolicyGate(st.t) /\ LossAsserts(b, st.t) = "none"
                                THEN <<b.pi_loss>> ELSE None]

\* ---------------------------------------------------------------- step()
\* self.act(), then the warmup loop
Acts(st, dones) ==
    LET r == ActLoop(Act([buffer |-> st.buffer, t |-> st.t, ob |-> st.ob,
                          running_norm |-> st.running_norm], dones[1]), dones, 1)
    IN  [st EXCEPT !.buffer = r.s.buffer, !.t = r.s.t, !.ob = r.s.ob,
                   !.running_norm = r.s.running_norm, !.acts = r.acts]

\* if self.t % self.target_update_period == 0: soft_target_update(...)
TargetSync(st) ==
    IF TargetGate(st.t)
    THEN [st EXCEPT !.target_vf = soft_target_update(st.target_vf, st.vf, cfg.tau),
                    !.soft = TRUE]
    ELSE st

\* "if pi_loss:" -- whether step() takes the policy optimizer step
PolicyStepTaken(pi_loss) == Truthy(pi_loss)

\* the optimizer steps that follow loss() in step()
ApplyGrads(st, b) ==
    IF st.err # "none" THEN st
    ELSE LET st1 == [st EXCEPT !.qf1 = OptStep(st.qf1, b.g_qf1), !.opt_qf1 = @ + 1,
                               !.qf2 = OptStep(st.qf2, b.g_qf2), !.opt_qf2 = @ + 1,
                               !.vf  = OptStep(st.vf,  b.g_vf),  !.opt_vf  = @ + 1]
         IN  IF PolicyStepTaken(st.pi_loss)
             THEN [st1 EXCEPT !.pi = OptStep(st1.pi, b.g_pi), !.opt_pi = @ + 1]
             ELSE st1

\* if self.t % self.update_period == 0: sample, loss, optimizer steps
Update(st, b) == IF UpdateGate(st.t) THEN ApplyGrads(Loss(st, b), b) ELSE st

\* mutant: the gates evaluated before the act of the step
StepBodyActLast(st, b, dones) == Acts(Update(TargetSync(st), b), dones)

\* mutant: the gradient gate placed before the target sync gate
StepBodyUpdateFirst(st, b, dones) == TargetSync(Update(Acts(st, dones), b))

\* SAC.step
StepBody(st, b, dones) == Update(TargetSync(Acts(st, dones)), b)

\* ------------------------------------------------------------- inputs
Grad(a, c) == [i \in 1..NParams |-> IF i = 1 THEN a * Unit ELSE c * Unit]

Shapes == {<<BatchRows>>, <<BatchRows, 1>>}

\* One sampled batch as step() sees it: the value of the policy loss, the mean
\* of logp + target_entropy, the gradients, and the shapes of rew (and done),
\* of the critics' output, of the value networks' output and of logp.
Batches ==
    { [pi_loss |-> pl, ent_gap |-> eg,
       g_pi |-> Grad(1, 0), g_qf1 |-> Grad(1, 1), g_qf2 |-> Grad(2, 1),
       g_vf |-> Grad(1, -1),
       rew_shape |-> sh[1], q_shape |-> sh[2], v_shape |-> sh[2], logp_shape |-> sh[3]]
      : pl \in {0, 1}, eg \in {0, 1},
        sh \in {<<rs, qs, ls>> \in Shapes \X Shapes \X Shapes : qs = <<BatchRows>>} }


\* ----------------------------------------------------------- Checkpointer
RECURSIVE Pow10(_)
Pow10(n) == IF n = 0 THEN 1 ELSE 10 * Pow10(n - 1)

\* self.format.format(t) + '.pt' with format '{:09d}': the decimal digits of t,
\* zero-padded to FormatWidth
get_ckpt_path(tt) ==
    [i \in 1..FormatWidth |-> (tt \div Pow10(FormatWidth - i)) % 10]

\* int(c.split('/')[-1][:-3])
RECURSIVE ParseInt(_)
ParseInt(name) ==
    IF name = <<>> THEN 0
    ELSE 10 * ParseInt(SubSeq(name, 1, Len(name) - 1)) + name[Len(name)]

RECURSIVE Sorted(_)
Sorted(S) ==
    IF S = {} THEN <<>>
    ELSE LET m == CHOOSE x \in S : \A y \in S : x <= y
         IN  <<m>> \o Sorted(S \ {m})

\* Checkpointer.ckpts: the steps of the files on disk, ascending
ckpts(files) == Sorted({ParseInt(name) : name \in DOMAIN files})

MaxOf(ts) == ts[Len(ts)]

\* the loop of prune_ckpts when min_ckpt_period is set: the steps to remove
\* among ts[i..], last_period being the greatest period seen so far
RECURSIVE PruneLoop(_, _, _, _, _)

\* mutant: "<=" for "<", so that one checkpoint fewer is kept
PruneLoopKeepsFewer(ts, i, last_period, k, p) ==
    IF i > Len(ts) THEN {}
    ELSE IF ts[i] \div p > last_period
         THEN PruneLoop(ts, i + 1, ts[i] \div p, k, p)
         ELSE (IF (i - 1) + k <= Len(ts) THEN {ts[i]} ELSE {})
              \cup PruneLoop(ts, i + 1, last_period, k, p)

\* mutant: the position counted from one, so that one more checkpoint is kept
PruneLoopFromOne(ts, i, last_period, k, p) ==
    IF i > Len(ts) THEN {}
    ELSE IF ts[i] \div p > last_period
         THEN PruneLoop(ts, i + 1, ts[i] \div p, k, p)
         ELSE (IF i + k < Len(ts) THEN {ts[i]} ELSE {})
              \cup PruneLoop(ts, i + 1, last_period, k, p)

PruneLoop(ts, i, last_period, k, p) ==
    IF i > Len(ts) THEN {}
    ELSE IF ts[i] \div p > last_period
         THEN PruneLoop(ts, i + 1, ts[i] \div p, k, p)
         ELSE (IF (i - 1) + k < Len(ts) THEN {ts[i]} ELSE {})
              \cup PruneLoop(ts, i + 1, last_period, k, p)

\* mutant: ts[:k] in place of ts[:-k]
TsToRemoveHead(files, k, p) ==
    LET ts == ckpts(files) IN
    IF k = None THEN {}
    ELSE IF p = None
         THEN {ts[i] : i \in 1..Min(k[1], Len(ts))}
         ELSE PruneLoop(ts, 1, -1, k[1], p[1])

\* mutant: with no max_ckpts_to_keep, a min_ckpt_period still prunes
TsToRemoveByPeriod(files, k, p) ==
    LET ts == ckpts(files) IN
    IF k = None
    THEN (IF p = None THEN {} ELSE PruneLoop(ts, 1, -1, 1, p[1]))
    ELSE IF p = None
         THEN (IF k[1] = 0 \/ k[1] >= Len(ts) THEN {}
               ELSE {ts[i] : i \in 1..(Len(ts) - k[1])})
         ELSE PruneLoop(ts, 1, -1, k[1], p[1])

\* Checkpointer.prune_ckpts: the steps whose files are removed
ts_to_remove(files, k, p) ==
    LET ts == ckpts(files) IN
    IF k = None THEN {}
    ELSE IF p = None
         THEN (IF k[1] = 0 \/ k[1] >= Len(ts) THEN {}
               ELSE {ts[i] : i \in 1..(Len(ts) - k[1])})
         ELSE PruneLoop(ts, 1, -1, k[1], p[1])

prune_ckpts(files, k, p) ==
    [name \in {get_ckpt_path(x) : x \in {ParseInt(n) : n \in DOMAIN files}
                                           \ ts_to_remove(files, k, p)}
        |-> files[name]]

\* mutant: a save at the latest step is let through
SaveAllowedAtLatest(files, tt) ==
    LET ts == ckpts(files)
        max_t == IF Len(ts) > 0 THEN MaxOf(ts) ELSE -1
    IN  tt >= max_t

\* the assertion of Checkpointer.save
SaveAllowed(files, tt) ==
    LET ts == ckpts(files)
        max_t == IF Len(ts) > 0 THEN MaxOf(ts) ELSE -1
    IN  tt > max_t

\* Checkpointer.save once the assertion has passed: write, then prune
CkptSave(files, save_dict, tt) ==
    prune_ckpts([name \in DOMAIN files \cup {get_ckpt_path(tt)} |->
                    IF name = get_ckpt_path(tt) THEN save_dict ELSE files[name]],
                cfg.max_ckpts_to_keep, cfg.min_ckpt_period)

\* ------------------------------------------------------- save() and load()
\* SAC.state_dict without 'buffer' (the policy's state holds the normalizer)
state_dict(st) ==
    [pi |-> st.pi, running_norm |-> st.running_norm,
     qf1 |-> st.qf1, qf2 |-> st.qf2, vf |-> st.vf,
     opt_pi |-> st.opt_pi, opt_qf1 |-> st.opt_qf1, opt_qf2 |-> st.opt_qf2,
     opt_vf |-> st.opt_vf,
     log_alpha |-> IF cfg.automatic_entropy_tuning THEN st.log_alpha ELSE None,
     opt_alpha |-> IF cfg.automatic_entropy_tuning THEN st.opt_alpha ELSE None,
     t |-> st.t]

\* "if state_dict['log_alpha']:" -- whether load_state_dict copies log_alpha
LogAlphaCopied(sd) == Truthy(sd.log_alpha)

\* mutant: critic 2 loaded from the entry of critic 1
LoadedQf2FromQf1(sd) == sd.qf1

\* the networks and the step counter after load_state_dict
LoadedPi(sd) == sd.pi
LoadedQf1(sd) == sd.qf1
LoadedQf2(sd) == sd.qf2
LoadedVf(sd) == sd.vf
LoadedTargetVf(sd) == sd.vf
LoadedT(sd) == sd.t

\* SAC.load_state_dict, then _reset()
load_state_dict(st, sd, buf) ==
    [st EXCEPT !.pi = LoadedPi(sd), !.running_norm = sd.running_norm,
               !.qf1 = LoadedQf1(sd), !.qf2 = LoadedQf2(sd),
               !.vf = LoadedVf(sd), !.target_vf = LoadedTargetVf(sd),
               !.opt_pi = sd.opt_pi, !.opt_qf1 = sd.opt_qf1,
               !.opt_qf2 = sd.opt_qf2, !.opt_vf = sd.opt_vf,
               !.log_alpha = IF LogAlphaCopied(sd) THEN sd.log_alpha ELSE @,
               !.buffer = buf, !.t = LoadedT(sd), !.ob = "reset"]

\* ------------------------------------------------------------ construction
\* mutant: target_vf keeps its own random initial parameters
InitTargetVfNoCopy(vf0, tvf0) == tvf0

\* self.target_vf.load_state_dict(self.vf.state_dict()): vf0 and tvf0 are the
\* random initial parameters of vf and of target_vf
InitTargetVf(vf0, tvf0) == vf0

\* SAC.__init__ under configuration c
Construct(c, vf0, tvf0) ==
    [pi |-> Zeros, qf1 |-> Zeros, qf2 |-> Zeros, vf |-> vf0,
     target_vf |-> InitTargetVf(vf0, tvf0),
     opt_pi |-> 0, opt_qf1 |-> 0, opt_qf2 |-> 0, opt_vf |-> 0,
     log_alpha |-> IF c.automatic_entropy_tuning THEN <<0>> ELSE None,
     opt_alpha |-> IF c.automatic_entropy_tuning THEN <<0>> ELSE None,
     t |-> 0, buffer |-> EmptyBuffer, running_norm |-> 0, ob |-> "reset",
     err |-> "none", acts |-> 0, soft |-> FALSE, loss |-> FALSE,
     vtarg_read |-> None, pi_loss |-> None, inputs |-> {}]

\* the random initial parameters of a value network
InitParams == {Zeros, Grad(1, 0)}
InitVf == Grad(1, 0)

Periods == {1, MaxPeriod}

Configs ==
    [learning_starts : {1, MaxStarts}, buffer_size : {1, 2, MaxSize},
     update_period : Periods, target_update_period : Periods,
     policy_update_period : Periods,
     automatic_entropy_tuning : BOOLEAN, rsample : {TRUE}, norm_obs : {TRUE},
     tau : {[num |-> 1, den |-> 2]},
     target_entropy : {None}, action_dim : {1},
     reward_scale : {1}, gamma : {[num |-> 1, den |-> 2]},
     max_ckpts_to_keep : {None, <<1>>}, min_ckpt_period : {None, <<2>>}]

\* what `last` records of the call that st is the outcome of (resumed: the
\* call before it was a load() that returned)
Outcome(op, arg, st) ==
    [op |-> op, arg |-> arg,
     resumed |-> (last.op = "load" /\ last.err = "none"),
     err |-> st.err, acts |-> st.acts, soft |-> st.soft,
     loss |-> st.loss, vtarg_read |-> st.vtarg_read, pi_loss |-> st.pi_loss,
     inputs |-> st.inputs]

\* the instance's fields become those of st
Assign(st) ==
    /\ pi' = st.pi /\ qf1' = st.qf1 /\ qf2' = st.qf2 /\ vf' = st.vf
    /\ target_vf' = st.target_vf
    /\ opt_pi' = st.opt_pi /\ opt_qf1' = st.opt_qf1 /\ opt_qf2' = st.opt_qf2
    /\ opt_vf' = st.opt_vf
    /\ log_alpha' = st.log_alpha /\ opt_alpha' = st.opt_alpha
    /\ t' = st.t /\ buffer' = st.buffer /\ running_norm' = st.running_norm
    /\ ob' = st.ob

InitWith(C) ==
    /\ cfg \in C
    /\ \E tvf0 \in InitParams :
         LET st == Construct(cfg, InitVf, tvf0) IN
         /\ pi = st.pi /\ qf1 = st.qf1 /\ qf2 = st.qf2 /\ vf = st.vf
         /\ target_vf = st.target_vf
         /\ opt_pi = st.opt_pi /\ opt_qf1 = st.opt_qf1 /\ opt_qf2 = st.opt_qf2
         /\ opt_vf = st.opt_vf
         /\ log_alpha = st.log_alpha /\ opt_alpha = st.opt_alpha
         /\ t = st.t /\ buffer = st.buffer /\ running_norm = st.running_norm
         /\ ob = st.ob
         /\ last = [op |-> "init", arg |-> None, resumed |-> FALSE, err |-> st.err,
                     acts |-> st.acts, soft |-> st.soft, loss |-> st.loss,
                     vtarg_read |-> st.vtarg_read, pi_loss |-> st.pi_loss,
                     inputs |-> st.inputs]
    /\ ckpt_files = <<>>
    /\ buffer_npz = None
    /\ saved = <<>>
    /\ loaded = None
    /\ gen = None
    /\ yielded = <<>>

\* one combination of periods and of buffer size; a checkpointer that keeps
\* every checkpoint or the latest one (the latest one under adaptive
\* temperature, whose optimizer state no load() bounds)
Init ==
    /\ InitWith({c \in Configs :
                /\ c.buffer_size = 2
                /\ c.update_period = 1 /\ c.policy_update_period = 1
                /\ c.target_update_period = MaxPeriod
                /\ c.min_ckpt_period = None
                /\ c.automatic_entropy_tuning => c.max_ckpts_to_keep # None})
    /\ rollout = None

\* every combination of periods, one checkpointer
InitTrain ==
    /\ InitWith({c \in Configs :
                   c.max_ckpts_to_keep = None /\ c.min_ckpt_period = None})
    /\ rollout = None

\* ------------------------------------------------------------ the actions
\* the act() calls the next step() makes
NeededActs ==
    IF Min(cfg.learning_starts, cfg.buffer_size) - buffer.num_in_buffer > 1
    THEN Min(cfg.learning_starts, cfg.buffer_size) - buffer.num_in_buffer
    ELSE 1

\* the batches whose shapes pass the assertions of loss() and whose policy
\* loss is not zero
CleanBatches ==
    {b \in Batches : b.rew_shape = b.q_shape /\ b.logp_shape = b.q_shape
                     /\ b.pi_loss # 0}

\* SAC.step() on a batch of B
StepWith(B) ==
    /\ t < MaxT
    /\ cfg.automatic_entropy_tuning => opt_alpha[1] < MaxAlphaSteps
    /\ \E b \in B, dones \in [1..NeededActs -> BOOLEAN] :
         LET st == StepBody(Self, b, dones) IN
         /\ st.t <= MaxT
         /\ Assign(st)
         /\ last' = Outcome("step", None, st)
    /\ UNCHANGED <<cfg, ckpt_files, buffer_npz, ckptr_driver, rollout_driver>>

\* SAC.save()
Save ==
    /\ Cardinality(DOMAIN ckpt_files) < MaxFiles
    /\ IF SaveAllowed(ckpt_files, t)
       THEN /\ ckpt_files' = CkptSave(ckpt_files, state_dict(Self), t)
            /\ buffer_npz' = <<buffer>>
            /\ last' = Outcome("save", None, Self)
       ELSE /\ UNCHANGED <<ckpt_files, buffer_npz>>
            /\ last' = Outcome("save", None, [Self EXCEPT !.err = "AssertionError"])
    /\ UNCHANGED <<cfg, nets, t, buffer, running_norm, ob, ckptr_driver,
                    rollout_driver>>

LoadArgs == {None} \cup {<<n>> : n \in 0..MaxT}

\* SAC.load(t): Checkpointer.load, np.load of buffer.npz, load_state_dict
Load ==
    /\ UNCHANGED <<ckptr_driver, rollout_driver>>
    /\ \E arg \in LoadArgs :
      LET ts == ckpts(ckpt_files) IN
      IF arg = None /\ Len(ts) = 0
      THEN /\ last' = Outcome("load", arg, [Self EXCEPT !.err = "ValueError"])
           /\ UNCHANGED <<cfg, nets, t, buffer, running_norm, ob,
                          ckpt_files, buffer_npz>>
      ELSE LET tt == IF arg = None THEN MaxOf(ts) ELSE arg[1]
               path == get_ckpt_path(tt)
           IN  IF path \notin DOMAIN ckpt_files
               THEN /\ last' = Outcome("load", arg,
                                       [Self EXCEPT !.err = "AssertionError"])
                    /\ UNCHANGED <<cfg, nets, t, buffer, running_norm, ob,
                                   ckpt_files, buffer_npz>>
               ELSE LET st == load_state_dict(Self, ckpt_files[path], buffer_npz[1])
                    IN  /\ Assign(st)
                        /\ last' = Outcome("load", arg, st)
                        /\ UNCHANGED <<cfg, ckpt_files, buffer_npz>>

\* a new process constructs a new SAC over the same checkpoint directory
Restart ==
    /\ \E tvf0 \in InitParams :
         LET st == Construct(cfg, InitVf, tvf0) IN
         /\ Assign(st)
         /\ last' = Outcome("init", None, st)
    /\ UNCHANGED <<cfg, ckpt_files, buffer_npz, ckptr_driver, rollout_driver>>

\* training with checkpoints and restarts
Step == StepWith(CleanBatches)
Next == Step \/ Save \/ Load \/ Restart
Spec == Init /\ [][Next]_vars

\* training alone, on every batch and under every combination of periods
Train == StepWith(Batches)
NextTrain == Train
SpecTrain == InitTrain /\ [][NextTrain]_vars

\* training with checkpoints and restarts on clean batches, under every
\* combination of periods, with a checkpointer that keeps every checkpoint
InitCounter ==
    /\ InitWith({c \in Configs :
                /\ c.buffer_size = 2
                /\ ~c.automatic_entropy_tuning
                /\ c.max_ckpts_to_keep = None /\ c.min_ckpt_period = None})
    /\ rollout = None

NextCounter == Step \/ Save \/ Load \/ Restart
SpecCounter == InitCounter /\ [][NextCounter]_vars

\* ------------------------------------------- the Checkpointer driven alone
\* the save_dict of the unit test, {'test': v}
SaveDicts == {[test |-> v] : v \in {0, 1}}

\* Checkpointer(ckptdir, max_ckpts_to_keep, min_ckpt_period)
CkptrConfigs ==
    {[c EXCEPT !.max_ckpts_to_keep = k, !.min_ckpt_period = p] :
        c \in {x \in Configs :
                  /\ x.learning_starts = 1 /\ x.buffer_size = 1
                  /\ x.update_period = 1 /\ x.target_update_period = 1
                  /\ x.policy_update_period = 1
                  /\ ~x.automatic_entropy_tuning
                  /\ x.max_ckpts_to_keep = None /\ x.min_ckpt_period = None},
        k \in {None, <<1>>, <<MaxKeep>>},
        p \in {None, <<2>>, <<MaxCkptPeriod>>}}

\* mutant: a step that has no checkpoint falls back to the latest one
LoadPathFallback(files, arg) ==
    IF arg = None \/ get_ckpt_path(arg[1]) \notin DOMAIN files
    THEN get_ckpt_path(MaxOf(ckpts(files)))
    ELSE get_ckpt_path(arg[1])

\* mutant: load() with no step takes the oldest checkpoint
LoadPathOldest(files, arg) ==
    get_ckpt_path(IF arg = None THEN ckpts(files)[1] ELSE arg[1])

\* "if t is None: t = max(self.ckpts())", "path = self.get_ckpt_path(t)"
LoadPath(files, arg) ==
    get_ckpt_path(IF arg = None THEN MaxOf(ckpts(files)) ELSE arg[1])

\* Checkpointer.load(t): the error it raises and the state it returns
\* (max() of no checkpoint raises ValueError)
CkptLoad(files, arg) ==
    IF DOMAIN files = {}
    THEN [err |-> IF arg = None THEN "ValueError" ELSE "AssertionError",
          state |-> None]
    ELSE LET path == LoadPath(files, arg) IN
         IF path \notin DOMAIN files
         THEN [err |-> "AssertionError", state |-> None]
         ELSE [err |-> "none", state |-> <<files[path]>>]

InitCkptr ==
    /\ InitWith(CkptrConfigs)
    /\ rollout = None

\* ckptr.save(save_dict, t) of the driver
CkptrSave ==
    /\ \E tt \in 0..MaxStep, d \in SaveDicts :
         IF SaveAllowed(ckpt_files, tt)
         THEN /\ ckpt_files' = CkptSave(ckpt_files, d, tt)
              /\ saved' = [x \in DOMAIN saved \cup {tt} |->
                              IF x = tt THEN d ELSE saved[x]]
              /\ last' = Outcome("ckptr_save", <<tt>>, Self)
         ELSE /\ UNCHANGED <<ckpt_files, saved>>
              /\ last' = Outcome("ckptr_save", <<tt>>,
                                  [Self EXCEPT !.err = "AssertionError"])
    /\ loaded' = None
    /\ UNCHANGED <<cfg, nets, t, buffer, running_norm, ob, buffer_npz,
                    rollout_driver>>

\* ckptr.load(t) and ckptr.load() of the driver
CkptrLoad ==
    /\ \E arg \in {None} \cup {<<n>> : n \in 0..MaxStep} :
         LET ret == CkptLoad(ckpt_files, arg) IN
         /\ loaded' = ret.state
         /\ last' = Outcome("ckptr_load", arg, [Self EXCEPT !.err = ret.err])
    /\ UNCHANGED <<cfg, nets, t, buffer, running_norm, ob, ckpt_files,
                    buffer_npz, saved, rollout_driver>>

NextCkptr == CkptrSave \/ CkptrLoad
SpecCkptr == InitCkptr /\ [][NextCkptr]_vars

\* --------------------------------------- soft_target_update applied alone
\* tau in (0, 1] as a fraction
Taus == {[num |-> 1, den |-> 1], [num |-> 1, den |-> 2],
         [num |-> 1, den |-> 4], [num |-> 3, den |-> 4]}

BlendConfigs ==
    {[c EXCEPT !.tau = tau] :
        c \in {x \in Configs :
                  /\ x.learning_starts = 1 /\ x.buffer_size = 1
                  /\ x.update_period = 1 /\ x.target_update_period = 1
                  /\ x.policy_update_period = 1
                  /\ ~x.automatic_entropy_tuning
                  /\ x.max_ckpts_to_keep = None /\ x.min_ckpt_period = None},
        tau \in Taus}

\* the parameters of a network: whole numbers of Unit
ParamVectors == [1..NParams -> {0 - Unit, 0, Unit}]

\* a target network and a source network of any parameters, any tau
InitBlend ==
    /\ cfg \in BlendConfigs
    /\ vf \in ParamVectors
    /\ target_vf \in ParamVectors
    /\ LET st == Construct(cfg, vf, target_vf) IN
         /\ pi = st.pi /\ qf1 = st.qf1 /\ qf2 = st.qf2
         /\ opt_pi = st.opt_pi /\ opt_qf1 = st.opt_qf1 /\ opt_qf2 = st.opt_qf2
         /\ opt_vf = st.opt_vf
         /\ log_alpha = st.log_alpha /\ opt_alpha = st.opt_alpha
         /\ t = st.t /\ buffer = st.buffer /\ running_norm = st.running_norm
         /\ ob = st.ob
         /\ last = [op |-> "init", arg |-> None, resumed |-> FALSE, err |-> st.err,
                     acts |-> st.acts, soft |-> st.soft, loss |-> st.loss,
                     vtarg_read |-> st.vtarg_read, pi_loss |-> st.pi_loss,
                     inputs |-> st.inputs]
    /\ ckpt_files = <<>> /\ buffer_npz = None
    /\ saved = <<>> /\ loaded = None /\ rollout = None /\ gen = None /\ yielded = <<>>

\* soft_target_update(target_vf, vf, tau), while the fixed-point blend is exact
Blend ==
    /\ \A i \in 1..NParams :
          ((cfg.tau.den - cfg.tau.num) * target_vf[i] + cfg.tau.num * vf[i])
             % cfg.tau.den = 0
    /\ target_vf' = soft_target_update(target_vf, vf, cfg.tau)
    /\ last' = Outcome("blend", None, [Self EXCEPT !.soft = TRUE])
    /\ UNCHANGED <<cfg, pi, qf1, qf2, vf, opt_pi, opt_qf1, opt_qf2, opt_vf,
                    log_alpha, opt_alpha, t, buffer, running_norm, ob,
                    ckpt_files, buffer_npz, ckptr_driver, rollout_driver>>

NextBlend == Blend
SpecBlend == InitBlend /\ [][NextBlend]_vars

\* ------------------------------- the temperature controller applied alone
\* the target_entropy argument: not given, zero, below and above zero
TargetEntropies == {None, <<0>>, <<-2>>, <<1>>}

AlphaConfigs ==
    {[c EXCEPT !.target_entropy = te] :
        c \in {x \in Configs :
                  /\ x.learning_starts = 1 /\ x.buffer_size = 1
                  /\ x.update_period = 1 /\ x.target_update_period = 1
                  /\ x.policy_update_period = 1
                  /\ x.automatic_entropy_tuning
                  /\ x.max_ckpts_to_keep = None /\ x.min_ckpt_period = None},
        te \in TargetEntropies}

\* logp of the rows of a batch
Logps == [1..BatchRows -> -2..2]

RECURSIVE SumTo(_, _)
SumTo(f, n) == IF n = 0 THEN 0 ELSE f[n] + SumTo(f, n - 1)

\* what the temperature step reads of a batch whose rows have these logp
AlphaBatch(logps) ==
    [ent_gap |-> SumTo([i \in 1..BatchRows |-> logps[i] + TargetEntropy(cfg)[1]],
                       BatchRows)]

InitAlpha ==
    /\ InitWith(AlphaConfigs)
    /\ rollout = None

\* the temperature step of loss() on a batch
AlphaTrain ==
    /\ opt_alpha[1] < MaxAlphaSteps
    /\ \E logps \in Logps :
         LET st == AlphaStep(Self, AlphaBatch(logps)) IN
         /\ log_alpha' = st.log_alpha
         /\ opt_alpha' = st.opt_alpha
         /\ last' = Outcome("alpha", <<logps>>, st)
    /\ UNCHANGED <<cfg, pi, qf1, qf2, vf, target_vf, opt_pi, opt_qf1, opt_qf2,
                    opt_vf, t, buffer, running_norm, ob, ckpt_files, buffer_npz,
                    ckptr_driver, rollout_driver>>

NextAlpha == AlphaTrain
SpecAlpha == InitAlpha /\ [][NextAlpha]_vars

\* ------------------------------------------------- the critic target alone
\* the discount factors and reward scales the target is computed under
Gammas == {[num |-> 1, den |-> 2], [num |-> 1, den |-> 1]}
RewardScales == {1, 2}

TargetConfigs ==
    {[c EXCEPT !.reward_scale = rs, !.gamma = g] :
        c \in {x \in Configs :
                  /\ x.learning_starts = 1 /\ x.buffer_size = 1
                  /\ x.update_period = 1 /\ x.target_update_period = 1
                  /\ x.policy_update_period = 1
                  /\ ~x.automatic_entropy_tuning
                  /\ x.max_ckpts_to_keep = None /\ x.min_ckpt_period = None},
        rs \in RewardScales, g \in Gammas}

\* a row of a batch as the critic target reads it: the reward, the done flag
\* (0.0 or 1.0) and target_vf(next_ob).value, which every gamma divides
TargetRows == [rew : {-1, 1}, done : {0, 1}, vtarg : {-2, 2}]

\* mutant: the target bootstraps through terminal transitions
QtargUnmasked(c, row) ==
    c.reward_scale * row.rew + (c.gamma.num * row.vtarg) \div c.gamma.den

\* qtarg = self.reward_scale * rew + (1.0 - done) * self.gamma * vtarg, a row
Qtarg(c, row) ==
    c.reward_scale * row.rew
      + ((1 - row.done) * c.gamma.num * row.vtarg) \div c.gamma.den

\* what each critic's criterion is given as its target: qtarg.detach()
\* for qf1_loss and for qf2_loss
CriticTargets(c, rows) ==
    [qf1 |-> [i \in DOMAIN rows |-> Qtarg(c, rows[i])],
     qf2 |-> [i \in DOMAIN rows |-> Qtarg(c, rows[i])]]

InitTarget ==
    /\ InitWith(TargetConfigs)
    /\ rollout = None

\* the critic target of loss() on a batch of these rows
TargetBatch ==
    /\ \E rows \in [1..BatchRows -> TargetRows] :
         last' = [op |-> "qtarg", arg |-> <<rows>>, resumed |-> FALSE,
                  qtarg |-> CriticTargets(cfg, rows)]
    /\ UNCHANGED <<cfg, pi, qf1, qf2, vf, target_vf, opt_pi, opt_qf1, opt_qf2,
                    opt_vf, log_alpha, opt_alpha, t, buffer, running_norm, ob,
                    ckpt_files, buffer_npz, ckptr_driver, rollout_driver>>

NextTarget == TargetBatch
SpecTarget == InitTarget /\ [][NextTarget]_vars

\* ------------------------------------------- the normalizer's window alone
\* a bound of a numpy slice of an array of n rows: a negative bound counts
\* from the end, and a bound outside the array is clamped to it
SliceBound(i, n) ==
    IF i < 0 THEN (IF i + n < 0 THEN 0 ELSE i + n)
    ELSE IF i > n THEN n ELSE i

\* the rows of a[lo:hi], a of n rows
Slice(lo, hi, n) ==
    IF SliceBound(hi, n) <= SliceBound(lo, n) THEN <<>>
    ELSE [j \in 1..(SliceBound(hi, n) - SliceBound(lo, n)) |->
             SliceBound(lo, n) + j - 1]

\* the rows of self.buffer.obs that act() hands to np.mean and np.var when
\* the buffer of this capacity has next_idx = idx:
\*   obs[idx-128:idx]                       if idx >= 128
\*   obs[-(128-idx):] followed by obs[:idx]  otherwise
NormWindow(size, idx) ==
    IF idx >= NormPeriod
    THEN Slice(idx - NormPeriod, idx, size)
    ELSE Slice(0 - (NormPeriod - idx), size, size) \o Slice(0, idx, size)

\* buffer capacities on both sides of the window's length
NormSizes ==
    {1, MaxSize, NormPeriod - 1, NormPeriod, NormPeriod + MaxSize - 1,
     2 * NormPeriod - 1}

NormConfigs ==
    {[c EXCEPT !.buffer_size = size] :
        c \in {x \in Configs :
                  /\ x.learning_starts = 1 /\ x.buffer_size = 1
                  /\ x.update_period = 1 /\ x.target_update_period = 1
                  /\ x.policy_update_period = 1
                  /\ ~x.automatic_entropy_tuning
                  /\ x.max_ckpts_to_keep = None /\ x.min_ckpt_period = None},
        size \in NormSizes}

InitNorm ==
    /\ InitWith(NormConfigs)
    /\ rollout = None

\* one call of act(); window is the rows averaged when the normalizer
\* update fires
NormAct ==
    /\ t < MaxWindows * NormPeriod
    /\ \E done \in BOOLEAN :
         LET s == Act(ActState, done) IN
         /\ buffer' = s.buffer /\ t' = s.t /\ ob' = s.ob
         /\ running_norm' = s.running_norm
         /\ last' = [op |-> "act", arg |-> <<done>>, resumed |-> FALSE,
                      window |-> IF cfg.norm_obs /\ s.t % NormPeriod = 0
                                 THEN <<NormWindow(cfg.buffer_size, s.buffer.next_idx)>>
                                 ELSE None]
    /\ UNCHANGED <<cfg, pi, qf1, qf2, vf, target_vf, opt_pi, opt_qf1, opt_qf2,
                    opt_vf, log_alpha, opt_alpha, ckpt_files, buffer_npz,
                    ckptr_driver, rollout_driver>>

NextNorm == NormAct
SpecNorm == InitNorm /\ [][NextNorm]_vars

\* ---------------------------------------------------------- RolloutStorage
\* A storage is num_steps, num_processes, whether recurrent_state_keys is not
\* empty, self.step, and of self.data the first dimension of the step data
\* init_data allocated it for (None before); inserted is history: the insert()
\* calls that have returned.  compute_targets, which writes vtarg and atarg
\* only, is not modelled.  A pass is "for batch in r.generator(batch_size)":
\* the body of a generator runs when the pass asks for the first batch.
RolloutStorage(num_steps, num_processes, recurrent) ==
    [num_steps |-> num_steps, num_processes |-> num_processes,
     recurrent |-> recurrent, step |-> 0, data |-> None, written |-> <<>>,
     inserted |-> 0]

\* init_data(step_data): self.data[k] = torch.zeros([num_steps] + shape), np
\* being the first dimension of every tensor of step_data.  data is that
\* first dimension; written[s + 1] is the insert() whose step_data row s of
\* the data holds, 0 for the zeros of init_data
init_data(r, np) ==
    [r EXCEPT !.data = <<np>>, !.written = [s \in 1..r.num_steps |-> 0]]

\* insert(step_data): init_data on the first call, the assertion on the
\* first key, the copy_ into data[k][step], the step counter
Insert(r, np) ==
    LET r1 == IF r.data = None THEN init_data(r, np) ELSE r IN
    IF np # r.num_processes
    THEN [err |-> "AssertionError", r |-> r1]
    ELSE IF r1.data[1] # np /\ np # 1
    THEN [err |-> "RuntimeError", r |-> r1]
    ELSE [err |-> "none",
          r |-> [r1 EXCEPT !.written[r.step + 1] = r.inserted + 1,
                           !.step = (r.step + 1) % r.num_steps,
                           !.inserted = r.inserted + 1]]

\* the orders in which the elements of S can be drawn
RECURSIVE RandPerms(_)
RandPerms(S) ==
    IF S = {} THEN {<<>>}
    ELSE UNION {{<<x>> \o p : p \in RandPerms(S \ {x})} : x \in S}

\* SubsetRandomSampler(range(n)): a random permutation of 0..n-1
Orders(n) == RandPerms(0..(n - 1))

\* BatchSampler(sampler, batch_size, drop_last=False): the indices in
\* batches of batch_size, the last one shorter when they do not divide
RECURSIVE BatchSampler(_, _)
BatchSampler(order, batch_size) ==
    IF Len(order) = 0 THEN <<>>
    ELSE IF Len(order) <= batch_size THEN <<order>>
    ELSE <<SubSeq(order, 1, batch_size)>>
         \o BatchSampler(SubSeq(order, batch_size + 1, Len(order)), batch_size)

\* what a batch holds of the cell (step, row) of the data as it is now
Cell(r, step, row) == <<step, row, r.written[step + 1]>>

\* v.view(-1, *v.shape[2:])[indices]: row i of the flattened data is the cell
\* (i div d, i mod d) of data allocated for d rows a step
FlatRows(r, indices) ==
    [j \in 1..Len(indices) |->
        Cell(r, indices[j] \div r.data[1], indices[j] % r.data[1])]

\* v[:, indices].view(-1, *v.shape[2:]): the cells of the processes drawn,
\* step by step
StepRows(r, indices) ==
    [j \in 1..(r.num_steps * Len(indices)) |->
        Cell(r, (j - 1) \div Len(indices), indices[((j - 1) % Len(indices)) + 1])]

\* the generator object a call of fn(batch_size) returns: no line of the body
\* has run.  pending is the batches of indices the sampler has yet to give;
\* began is history: the inserts that had returned when the body started
Generator(fn, batch_size) ==
    [fn |-> fn, batch_size |-> batch_size, started |-> FALSE,
     pending |-> <<>>, began |-> 0]

\* the next batch of indices of generator g, the sampler drawing the indices
\* in this order if it has not yet drawn them
Pending(g, order) ==
    IF g.started THEN g.pending ELSE BatchSampler(order, g.batch_size)

\* next() on a generator g of feed_forward_generator: the body runs from
\* where it stands to the next yield.  The assertions run when the body
\* starts; every batch is read from self.data as it is when it is yielded
feed_forward_generator(r, g, order) ==
    IF ~g.started /\ r.step # 0
    THEN [err |-> "AssertionError", batch |-> None, gen |-> None]
    ELSE IF ~g.started /\ r.recurrent
    THEN [err |-> "AssertionError", batch |-> None, gen |-> None]
    ELSE IF ~g.started /\ g.batch_size > r.num_processes * r.num_steps
    THEN [err |-> "AssertionError", batch |-> None, gen |-> None]
    ELSE IF Pending(g, order) = <<>>
    THEN [err |-> "StopIteration", batch |-> None, gen |-> None]
    ELSE IF r.data = None
    THEN [err |-> "AttributeError", batch |-> None, gen |-> None]
    ELSE [err |-> "none",
          batch |-> <<FlatRows(r, Head(Pending(g, order)))>>,
          gen |-> [g EXCEPT !.started = TRUE,
                            !.pending = Tail(Pending(g, order)),
                            !.began = IF g.started THEN g.began ELSE r.inserted]]

\* next() on a generator g of recurrent_generator: a batch holds the
\* num_steps cells of each process drawn
recurrent_generator(r, g, order) ==
    IF ~g.started /\ r.step # 0
    THEN [err |-> "AssertionError", batch |-> None, gen |-> None]
    ELSE IF ~g.started /\ g.batch_size > r.num_processes
    THEN [err |-> "AssertionError", batch |-> None, gen |-> None]
    ELSE IF Pending(g, order) = <<>>
    THEN [err |-> "StopIteration", batch |-> None, gen |-> None]
    ELSE IF r.data = None
    THEN [err |-> "AttributeError", batch |-> None, gen |-> None]
    ELSE [err |-> "none",
          batch |-> <<StepRows(r, Head(Pending(g, order)))>>,
          gen |-> [g EXCEPT !.started = TRUE,
                            !.pending = Tail(Pending(g, order)),
                            !.began = IF g.started THEN g.began ELSE r.inserted]]

RolloutConfigs ==
    {x \in Configs :
        /\ x.learning_starts = 1 /\ x.buffer_size = 1
        /\ x.update_period = 1 /\ x.target_update_period = 1
        /\ x.policy_update_period = 1
        /\ ~x.automatic_entropy_tuning
        /\ x.max_ckpts_to_keep = None /\ x.min_ckpt_period = None}

InitRollout ==
    /\ InitWith(RolloutConfigs)
    /\ \E num_steps \in 1..MaxNumSteps, num_processes \in 1..MaxProcs,
          recurrent \in BOOLEAN :
         rollout = RolloutStorage(num_steps, num_processes, recurrent)

\* what the rollout actions leave alone
NotRollout ==
    <<cfg, nets, t, buffer, running_norm, ob, ckpt_files, buffer_npz,
      ckptr_driver>>

\* r.insert(step_data), step_data of num_processes rows or of one too many;
\* a generator the caller holds stays where it stands
RolloutInsert ==
    /\ rollout.inserted < MaxInserts
    /\ \E np \in {rollout.num_processes, rollout.num_processes + 1} :
         LET ret == Insert(rollout, np) IN
         /\ rollout' = ret.r
         /\ last' = Outcome("insert", <<np>>, [Self EXCEPT !.err = ret.err])
    /\ UNCHANGED <<NotRollout, gen, yielded>>

BatchSizeArgs == 1..(MaxNumSteps * MaxProcs + 1)

\* g = r.feed_forward_generator(batch_size): the call returns a generator
\* and runs no line of the body
FeedForwardCall ==
    /\ \E batch_size \in BatchSizeArgs :
         /\ gen' = <<Generator("feed_forward_generator", batch_size)>>
         /\ last' = Outcome("feed_forward_generator", <<batch_size>>, Self)
    /\ yielded' = <<>>
    /\ UNCHANGED <<NotRollout, rollout>>

\* g = r.recurrent_generator(batch_size)
RecurrentCall ==
    /\ \E batch_size \in BatchSizeArgs :
         /\ gen' = <<Generator("recurrent_generator", batch_size)>>
         /\ last' = Outcome("recurrent_generator", <<batch_size>>, Self)
    /\ yielded' = <<>>
    /\ UNCHANGED <<NotRollout, rollout>>

\* the indices a generator's sampler ranges over
SamplerRange(r, g) ==
    IF g.fn = "feed_forward_generator" THEN r.num_processes * r.num_steps
    ELSE r.num_processes

\* next(g), as the for loop over the generator calls it: a batch, an error of
\* the body, or StopIteration; after either of the last two g is finished
GeneratorNext ==
    /\ gen # None
    /\ \E order \in IF gen[1].started THEN {<<>>}
                     ELSE Orders(SamplerRange(rollout, gen[1])) :
         LET ret == IF gen[1].fn = "feed_forward_generator"
                    THEN feed_forward_generator(rollout, gen[1], order)
                    ELSE recurrent_generator(rollout, gen[1], order)
         IN  /\ gen' = IF ret.gen = None THEN None ELSE <<ret.gen>>
             /\ yielded' = yielded \o ret.batch
             /\ last' = Outcome("next", <<gen[1].fn, gen[1].batch_size>>,
                                 [Self EXCEPT !.err = ret.err])
    /\ UNCHANGED <<NotRollout, rollout>>

NextRollout == RolloutInsert \/ FeedForwardCall \/ RecurrentCall \/ GeneratorNext
SpecRollout == InitRollout /\ [][NextRollout]_vars

\* ------------------------------------------------------------ sanity
TypeOK ==
    /\ t \in 0..MaxT
    /\ buffer.num_in_buffer \in 0..cfg.buffer_size
    /\ buffer.next_idx \in 0..(cfg.buffer_size - 1)
    /\ last.op \in {"init", "step", "save", "load", "ckptr_save", "ckptr_load",
                   "blend", "alpha", "insert", "feed_forward_generator",
                   "recurrent_generator", "next"}
    /\ last.err \in {"none", "AssertionError", "ValueError"}
    /\ \A name \in DOMAIN ckpt_files : get_ckpt_path(ParseInt(name)) = name
    /\ (buffer_npz = None) <=> (DOMAIN ckpt_files = {})

\* the fixed-point blend loses nothing: doubling the blend gives the exact sum
BlendExact ==
    \A i \in 1..NParams :
        cfg.tau.den * soft_target_update(target_vf, vf, cfg.tau)[i]
            = (cfg.tau.den - cfg.tau.num) * target_vf[i] + cfg.tau.num * vf[i]

\* ================================================================ claims
WarmupMin == Min(cfg.learning_starts, cfg.buffer_size)

\* a step() call has just returned or raised
Stepped == last'.op = "step"

OptimizersUnchanged ==
    /\ pi' = pi /\ qf1' = qf1 /\ qf2' = qf2 /\ vf' = vf
    /\ opt_pi' = opt_pi /\ opt_qf1' = opt_qf1 /\ opt_qf2' = opt_qf2
    /\ opt_vf' = opt_vf
    /\ log_alpha' = log_alpha /\ opt_alpha' = opt_alpha

\* C1 -- Warmup gate.  A step() that takes any optimizer step (critics, value,
\* policy, temperature) or soft-updates the target does so with at least
\* min(learning_starts, capacity) transitions stored, whatever update_period
\* is; from an empty store with update_period = 1 the first call makes exactly
\* min(learning_starts, capacity) act() calls and then calls loss().
C1_WarmupGate ==
    [][Stepped =>
        /\ (~OptimizersUnchanged \/ target_vf' # target_vf
              \/ last'.soft \/ last'.loss)
           => buffer'.num_in_buffer >= WarmupMin
        /\ (buffer.num_in_buffer = 0 /\ cfg.update_period = 1)
           => /\ last'.acts = WarmupMin
              /\ buffer'.num_in_buffer = WarmupMin
              /\ last'.loss
              /\ (last'.err = "none" => opt_qf1' = opt_qf1 + 1)]_vars

\* a warmup of more than one act() has ended in the first gradient update
C1_Witness ==
    /\ last.op = "step" /\ last.acts = 2 /\ WarmupMin = 2
    /\ cfg.update_period = 1 /\ last.loss /\ opt_qf1 = 1 /\ t = 2

\* the optimizer steps of the claim C2, counted on one step() that returned
GateCount(open) == IF open THEN 1 ELSE 0

\* C2 -- Gradient and policy gates.  On every step() that returns, critic-1,
\* critic-2 and value optimizers each take one step if t mod update_period = 0
\* and none otherwise, and the policy optimizer takes one step exactly if also
\* t mod policy_update_period = 0, whatever the policy loss is.
C2_Gates ==
    [][(Stepped /\ last'.err = "none") =>
        /\ opt_qf1' = opt_qf1 + GateCount(UpdateGate(t'))
        /\ opt_qf2' = opt_qf2 + GateCount(UpdateGate(t'))
        /\ opt_vf' = opt_vf + GateCount(UpdateGate(t'))
        /\ opt_pi' = opt_pi + GateCount(UpdateGate(t') /\ PolicyGate(t'))]_vars

\* C3 -- Ordering within one step().  When both the target gate and the
\* gradient gate are open, the V_targ that loss() reads is the blend of the
\* V_targ and V of before the call, and V_targ at the end of the call is
\* still the value that was read.
C3_SyncBeforeRead ==
    [][(Stepped /\ TargetGate(t') /\ UpdateGate(t')) =>
        /\ last'.soft /\ last'.loss
        /\ last'.vtarg_read = <<soft_target_update(target_vf, vf, cfg.tau)>>
        /\ target_vf' = last'.vtarg_read[1]]_vars

\* both gates were open and the blend read by loss() differs from V
C3_Witness ==
    /\ last.op = "step" /\ last.soft /\ last.loss
    /\ last.vtarg_read = <<target_vf>> /\ target_vf # InitVf /\ opt_vf >= 2

\* C4 -- Temperature step.  With adaptive temperature, the temperature
\* optimizer takes exactly one step in every step() whose gradient gate is
\* open, whatever the policy gate and whether or not loss() raises, and none
\* in a step() whose gradient gate is closed.
C4_AlphaEveryUpdate ==
    [][(Stepped /\ cfg.automatic_entropy_tuning) =>
        /\ opt_alpha'[1] = opt_alpha[1] + GateCount(UpdateGate(t'))
        /\ ~UpdateGate(t') => log_alpha' = log_alpha]_vars

\* the temperature stepped on an update whose policy gate was closed
C4_Witness ==
    /\ cfg.automatic_entropy_tuning /\ last.op = "step" /\ last.loss
    /\ ~PolicyGate(t) /\ opt_alpha[1] = 1 /\ opt_pi = 0

\* C5 -- Shape contract.  When loss() raises its assertion, no optimizer has
\* stepped in that update: policy, critics, value and log alpha are as before.
C5_AssertBeforeAnyStep ==
    [][(Stepped /\ last'.err = "AssertionError") => OptimizersUnchanged]_vars

\* a load() has just returned, a save() has just returned
Loaded == last'.op = "load" /\ last'.err = "none"
SavedOK == last'.op = "save" /\ last'.err = "none"

LatestStep(files) == MaxOf(ckpts(files))

\* the checkpoint that the load() that has just returned read
LoadedFile ==
    ckpt_files[get_ckpt_path(IF last'.arg = None THEN LatestStep(ckpt_files)
                             ELSE last'.arg[1])]

\* C6 -- Checkpoint round trip of the approximators.  A save() at step t
\* writes, as the latest checkpoint, the parameters of policy, critics and
\* value, the states of their four optimizers and t; no later call changes a
\* checkpoint that is still on disk; and a load() leaves exactly the values of
\* the checkpoint it read in policy, critics, value, their optimizers and t.
C6_RoundTrip ==
    [][/\ SavedOK =>
            /\ LatestStep(ckpt_files') = t
            /\ LET sd == ckpt_files'[get_ckpt_path(t)] IN
               /\ sd.pi = pi /\ sd.qf1 = qf1 /\ sd.qf2 = qf2 /\ sd.vf = vf
               /\ sd.opt_pi = opt_pi /\ sd.opt_qf1 = opt_qf1
               /\ sd.opt_qf2 = opt_qf2 /\ sd.opt_vf = opt_vf /\ sd.t = t
       /\ ckpt_files' # ckpt_files =>
            \A name \in DOMAIN ckpt_files \cap DOMAIN ckpt_files' :
               ckpt_files'[name] = ckpt_files[name]
       /\ Loaded =>
            /\ pi' = LoadedFile.pi /\ qf1' = LoadedFile.qf1
            /\ qf2' = LoadedFile.qf2 /\ vf' = LoadedFile.vf
            /\ opt_pi' = LoadedFile.opt_pi /\ opt_qf1' = LoadedFile.opt_qf1
            /\ opt_qf2' = LoadedFile.opt_qf2 /\ opt_vf' = LoadedFile.opt_vf
            /\ t' = LoadedFile.t]_vars

\* a load() has restored approximators that had been trained
C6_Witness ==
    /\ last.op = "load" /\ last.err = "none" /\ ~last.resumed
    /\ t >= 2 /\ opt_qf1 >= 1 /\ qf1 # qf2 /\ opt_vf >= 1

\* C7 -- Temperature in the checkpoint.  With adaptive temperature, save()
\* writes log alpha and the state of the temperature optimizer, and load()
\* leaves both at the values of the checkpoint it read.
C7_AlphaRoundTrip ==
    [][cfg.automatic_entropy_tuning =>
        /\ SavedOK =>
             /\ ckpt_files'[get_ckpt_path(t)].log_alpha = log_alpha
             /\ ckpt_files'[get_ckpt_path(t)].opt_alpha = opt_alpha
        /\ Loaded =>
             /\ log_alpha' = LoadedFile.log_alpha
             /\ opt_alpha' = LoadedFile.opt_alpha]_vars

\* C8 -- Target network.  V_targ equals V after construction and after
\* load(); any other change of V_targ is the Polyak blend of a step() whose
\* target gate is open, so no optimizer step changes V_targ.
C8_TargetVf ==
    /\ []((last.op \in {"init", "load"} /\ last.err = "none") => target_vf = vf)
    /\ [][target_vf' # target_vf =>
            \/ last'.op = "init"
            \/ Loaded
            \/ /\ Stepped /\ last'.soft /\ TargetGate(t')
               /\ target_vf' = soft_target_update(target_vf, vf, cfg.tau)]_vars

\* a step() has blended V_targ and stepped V, and they differ
C8_Witness ==
    /\ last.op = "step" /\ last.soft /\ last.loss /\ last.err = "none"
    /\ target_vf # vf /\ target_vf # InitVf /\ opt_vf >= 2

\* C9 -- Resume skips warmup.  After a load(), of the latest checkpoint or of
\* the checkpoint of a given step, taken once the store held at least
\* min(learning_starts, capacity) transitions, t is the checkpoint's step and
\* the stored count is what it was at that step, min(capacity, t); the next
\* step() then makes exactly one act(), and the stored count after it is
\* again min(capacity, t).
C9_ResumeSkipsWarmup ==
    [][/\ (Loaded /\ LoadedFile.t >= WarmupMin) =>
            /\ t' = LoadedFile.t
            /\ buffer'.num_in_buffer = Min(cfg.buffer_size, t')
       /\ (last.op = "load" /\ last.err = "none" /\ t >= WarmupMin /\ Stepped) =>
            /\ last'.acts = 1
            /\ t' = t + 1
            /\ buffer'.num_in_buffer = Min(cfg.buffer_size, t')]_vars

\* C10 -- Step counter.  step() advances t by one per act() it makes (at
\* least one), save() and a failed load() leave t alone, load() sets t to the
\* step of the checkpoint, so t decreases only on load() or in a new process;
\* every gate of step() is evaluated on t as it is after the acts.
C10_StepCounter ==
    [][/\ Stepped =>
            /\ last'.acts >= 1
            /\ t' = t + last'.acts
            /\ last'.soft <=> TargetGate(t')
            /\ last'.loss <=> UpdateGate(t')
            /\ (last'.loss /\ last'.err = "none") =>
                  (last'.pi_loss # None <=> PolicyGate(t'))
       /\ last'.op = "save" => t' = t
       /\ Loaded => t' = LoadedFile.t
       /\ (last'.op = "load" /\ last'.err # "none") => t' = t
       /\ t' < t => (Loaded \/ last'.op = "init")]_vars

\* a step() of one act that ended an episode has left every gate closed,
\* each of them being open at the value t had before the act
C10_Witness ==
    /\ last.op = "step" /\ ~last.resumed /\ last.acts = 1 /\ ob = "reset"
    /\ ~last.soft /\ ~last.loss
    /\ ~TargetGate(t) /\ ~UpdateGate(t)
    /\ TargetGate(t - 1) /\ UpdateGate(t - 1) /\ PolicyGate(t - 1)
    /\ t > 1

\* the steps that have a checkpoint on disk
OnDisk(files) == {ParseInt(name) : name \in DOMAIN files}

\* the greatest element of a non-empty set of steps
Greatest(S) == CHOOSE x \in S : \A y \in S : y <= x

\* C11 -- Monotonic checkpoint ordering.  A save() at a step t that is not
\* above the greatest step on disk fails, and a save() that fails leaves every
\* checkpoint file and the buffer snapshot as they were.
C11_MonotonicSave ==
    [][last'.op = "save" =>
        /\ (OnDisk(ckpt_files) # {} /\ t <= Greatest(OnDisk(ckpt_files)))
              => last'.err = "AssertionError"
        /\ last'.err # "none" =>
              (ckpt_files' = ckpt_files /\ buffer_npz' = buffer_npz)]_vars

\* a save() below the latest checkpoint has failed, in a later process that
\* holds another buffer, under a checkpointer that prunes
C11_Witness ==
    /\ last.op = "save" /\ last.err = "AssertionError"
    /\ t < Greatest(OnDisk(ckpt_files)) /\ t > 0
    /\ cfg.max_ckpts_to_keep # None
    /\ buffer_npz # <<buffer>>

\* a Checkpointer.load has just returned or raised
CkptrLoaded == last'.op = "ckptr_load"

\* C12 -- Load of a missing checkpoint.  Checkpointer.load(t) raises and
\* returns no state whenever step t has no checkpoint on disk, whether t was
\* never saved or was saved and pruned; it leaves the disk as it was.
C12_LoadMissing ==
    [][(CkptrLoaded /\ last'.arg # None
          /\ last'.arg[1] \notin OnDisk(ckpt_files)) =>
        /\ last'.err = "AssertionError"
        /\ loaded' = None
        /\ ckpt_files' = ckpt_files]_vars

\* load(t) has failed for a step that was saved and then pruned, later
\* checkpoints being on disk
C12_Witness ==
    /\ last.op = "ckptr_load" /\ last.err = "AssertionError"
    /\ last.arg # None /\ last.arg[1] \in DOMAIN saved
    /\ last.arg[1] \notin OnDisk(ckpt_files)
    /\ Cardinality(OnDisk(ckpt_files)) >= 2

\* C13 -- Read-back.  After any successful saves, load(t) of a step t on
\* disk returns the state that was saved at t, and load() with no step
\* returns the state saved at the greatest step on disk.
C13_ReadBack ==
    [][CkptrLoaded =>
        /\ (last'.arg # None /\ last'.arg[1] \in OnDisk(ckpt_files)) =>
              /\ last'.err = "none"
              /\ loaded' = <<saved[last'.arg[1]]>>
        /\ (last'.arg = None /\ OnDisk(ckpt_files) # {}) =>
              /\ last'.err = "none"
              /\ loaded' = <<saved[Greatest(OnDisk(ckpt_files))]>>]_vars

\* load() with no step has returned the state of the greatest of several
\* steps on disk, which differs from the state of the smallest, after pruning
C13_Witness ==
    /\ last.op = "ckptr_load" /\ last.arg = None /\ last.err = "none"
    /\ Cardinality(OnDisk(ckpt_files)) >= 2
    /\ Cardinality(DOMAIN saved) > Cardinality(OnDisk(ckpt_files))
    /\ loaded = <<saved[Greatest(DOMAIN saved)]>>
    /\ loaded # <<ckpt_files[get_ckpt_path(ckpts(ckpt_files)[1])]>>

\* the smallest step of S in each period of length p
FirstOfPeriods(S, p) ==
    {x \in S : \A y \in S : (y \div p = x \div p) => x <= y}

\* the k greatest steps of S (all of S when it has no more than k)
MostRecent(S, k) == {x \in S : Cardinality({y \in S : y > x}) < k}

\* C16 -- Pruning with both limits.  With max_ckpts_to_keep = k >= 1 and
\* min_ckpt_period = p, the steps on disk are exactly the first step saved in
\* each period (step div p) together with the k most recently saved steps.
C16_PruneBoth ==
    (cfg.max_ckpts_to_keep # None /\ cfg.min_ckpt_period # None) =>
        OnDisk(ckpt_files) =
            FirstOfPeriods(DOMAIN saved, cfg.min_ckpt_period[1])
              \cup MostRecent(DOMAIN saved, cfg.max_ckpts_to_keep[1])

\* under both limits a step has been pruned while an older step, the first of
\* its period and not among the k most recent, is kept
C16_Witness ==
    /\ cfg.max_ckpts_to_keep # None /\ cfg.min_ckpt_period # None
    /\ last.op = "ckptr_save" /\ last.err = "none"
    /\ \E x \in OnDisk(ckpt_files), y \in DOMAIN saved \ OnDisk(ckpt_files) :
          /\ x < y
          /\ x \notin MostRecent(DOMAIN saved, cfg.max_ckpts_to_keep[1])
          /\ x \div cfg.min_ckpt_period[1] > 0

\* C17 -- Pruning with a count limit only.  With max_ckpts_to_keep = k >= 1
\* and no min_ckpt_period, the steps on disk are exactly the min(k, n)
\* greatest of the n steps saved so far.
C17_PruneCount ==
    (cfg.max_ckpts_to_keep # None /\ cfg.min_ckpt_period = None) =>
        /\ OnDisk(ckpt_files) = MostRecent(DOMAIN saved, cfg.max_ckpts_to_keep[1])
        /\ Cardinality(OnDisk(ckpt_files))
             = Min(cfg.max_ckpts_to_keep[1], Cardinality(DOMAIN saved))

\* under a count limit of several, more steps than the limit have been saved
C17_Witness ==
    /\ cfg.max_ckpts_to_keep # None /\ cfg.min_ckpt_period = None
    /\ cfg.max_ckpts_to_keep[1] >= 2
    /\ last.op = "ckptr_save" /\ last.err = "none"
    /\ Cardinality(DOMAIN saved) >= cfg.max_ckpts_to_keep[1] + 2

\* C18 -- No limit, no pruning.  With max_ckpts_to_keep unset, with or
\* without min_ckpt_period, no save removes a checkpoint: every step saved
\* is on disk.
C18_KeepAll ==
    /\ [](cfg.max_ckpts_to_keep = None => OnDisk(ckpt_files) = DOMAIN saved)
    /\ [][cfg.max_ckpts_to_keep = None =>
            \A name \in DOMAIN ckpt_files :
               name \in DOMAIN ckpt_files' /\ ckpt_files'[name] = ckpt_files[name]]_vars

\* with a min_ckpt_period and no max_ckpts_to_keep, several steps of one
\* period have been saved
C18_Witness ==
    /\ cfg.max_ckpts_to_keep = None /\ cfg.min_ckpt_period # None
    /\ last.op = "ckptr_save" /\ last.err = "none"
    /\ Cardinality(DOMAIN saved) >= 3
    /\ \E x, y \in OnDisk(ckpt_files) :
          x < y /\ x \div cfg.min_ckpt_period[1] = y \div cfg.min_ckpt_period[1]

\* C14 -- Polyak blend.  soft_target_update(target, source, tau) with
\* 0 < tau <= 1 sets every target parameter to (1 - tau) * old + tau * source,
\* position by position, and leaves the source unchanged; with tau = 1 the
\* target becomes a copy of the source.
C14_SoftUpdate ==
    [][last'.op = "blend" =>
        /\ \A i \in 1..NParams :
              cfg.tau.den * target_vf'[i]
                = (cfg.tau.den - cfg.tau.num) * target_vf[i] + cfg.tau.num * vf[i]
        /\ vf' = vf
        /\ cfg.tau.num = cfg.tau.den => target_vf' = vf]_vars

\* a blend with tau < 1 has left a target between whole units, different from
\* the source at every position
C14_Witness ==
    /\ last.op = "blend" /\ cfg.tau.num < cfg.tau.den /\ cfg.tau.den > 2
    /\ \A i \in 1..NParams : target_vf[i] # vf[i] /\ target_vf[i] % Unit # 0
    /\ target_vf[1] # target_vf[2]

\* a temperature step has just been taken on a batch
AlphaStepped == last'.op = "alpha"

\* C15 as claimed -- Temperature direction.  A temperature step on a batch
\* whose logp is above target_entropy in every row lowers log alpha, and one
\* on a batch whose logp is below target_entropy in every row raises it.
C15_DirectionAsClaimed ==
    [][AlphaStepped =>
        LET logps == last'.arg[1]
            te == TargetEntropy(cfg)[1]
        IN  /\ (\A i \in 1..BatchRows : logps[i] > te) =>
                  log_alpha'[1] < log_alpha[1]
            /\ (\A i \in 1..BatchRows : logps[i] < te) =>
                  log_alpha'[1] > log_alpha[1]]_vars

\* C15 -- Temperature direction, amended.  A temperature step on a batch
\* whose logp is above -target_entropy in every row (the entropy estimate
\* -logp below target_entropy) raises log alpha, and one on a batch whose
\* logp is below -target_entropy in every row lowers it.
C15_Direction ==
    [][AlphaStepped =>
        LET logps == last'.arg[1]
            te == TargetEntropy(cfg)[1]
        IN  /\ (\A i \in 1..BatchRows : logps[i] > 0 - te) =>
                  log_alpha'[1] > log_alpha[1]
            /\ (\A i \in 1..BatchRows : logps[i] < 0 - te) =>
                  log_alpha'[1] < log_alpha[1]]_vars

\* repeated steps on batches whose logp is below -target_entropy in every
\* row, and unequal between rows, have driven log alpha below its start
C15_Witness ==
    /\ last.op = "alpha" /\ opt_alpha[1] >= 2
    /\ \A i \in 1..BatchRows : last.arg[1][i] < 0 - TargetEntropy(cfg)[1]
    /\ last.arg[1][1] # last.arg[1][2]
    /\ log_alpha[1] < 0 - 4 * Unit

\* a pass over a generator has just ended
\* the body of a generator of fn starts: the first next() on it
Starts(fn) ==
    /\ last'.op = "next" /\ gen # None
    /\ gen[1].fn \in fn /\ ~gen[1].started

\* exactly num_steps transitions, or a positive multiple, have been inserted
CompleteRollout(r) == r.inserted > 0 /\ r.inserted % r.num_steps = 0

\* C19 -- Generator gating.  Iterating feed_forward_generator or
\* recurrent_generator raises an error and yields no batch at every insertion
\* count that is not a positive multiple of num_steps.
C19_GeneratorGate ==
    [][(Starts({"feed_forward_generator", "recurrent_generator"})
          /\ ~CompleteRollout(rollout)) =>
          (last'.err \notin {"none", "StopIteration"} /\ yielded' = <<>>)]_vars

\* C20 -- Recurrent generator without recurrent state.  On a storage with no
\* recurrent_state_keys that holds a complete rollout, iterating
\* recurrent_generator raises an error and yields no batch.
C20_RecurrentNeedsState ==
    [][(Starts({"recurrent_generator"}) /\ ~rollout.recurrent
          /\ CompleteRollout(rollout)) =>
          (last'.err \notin {"none", "StopIteration"} /\ yielded' = <<>>)]_vars

\* C26 -- Pruning keeps the latest.  With max_ckpts_to_keep >= 1, with or
\* without min_ckpt_period, a successful save leaves the checkpoint it wrote
\* on disk: the greatest step on disk is the greatest step ever saved, and a
\* load() right after a save returns the state just saved.
C26_LatestKept ==
    /\ []((cfg.max_ckpts_to_keep # None /\ DOMAIN saved # {}) =>
             /\ OnDisk(ckpt_files) # {}
             /\ Greatest(OnDisk(ckpt_files)) = Greatest(DOMAIN saved))
    /\ [][cfg.max_ckpts_to_keep # None =>
            /\ (last'.op = "ckptr_save" /\ last'.err = "none") =>
                  /\ last'.arg[1] \in OnDisk(ckpt_files')
                  /\ ckpt_files'[get_ckpt_path(last'.arg[1])]
                        = saved'[last'.arg[1]]
            /\ (last.op = "ckptr_save" /\ last.err = "none" /\ CkptrLoaded
                  /\ last'.arg = None) =>
                  /\ last'.err = "none"
                  /\ loaded' = <<saved[last.arg[1]]>>]_vars

\* under both limits, load() right after a save that pruned an older step of
\* the same period has returned the state just saved
C26_Witness ==
    /\ cfg.max_ckpts_to_keep # None /\ cfg.min_ckpt_period # None
    /\ last.op = "ckptr_load" /\ last.arg = None /\ last.err = "none"
    /\ loaded = <<saved[Greatest(DOMAIN saved)]>>
    /\ \E x \in DOMAIN saved \ OnDisk(ckpt_files) :
          x \div cfg.min_ckpt_period[1]
             = Greatest(DOMAIN saved) \div cfg.min_ckpt_period[1]

\* the target entropy the claim expects: the argument when one is supplied,
\* minus the dimensionality of the action space when none is
SuppliedOrDefault(c) ==
    IF c.target_entropy # None THEN c.target_entropy[1] ELSE 0 - c.action_dim

\* C24 -- Target entropy selection.  With adaptive temperature, every
\* temperature step uses as target entropy the value supplied at construction,
\* whatever number it is, and minus the action dimensionality when none was
\* supplied: log alpha moves by the sum over the rows of logp plus that target.
C24_TargetEntropy ==
    [][(AlphaStepped /\ cfg.automatic_entropy_tuning) =>
          log_alpha'[1] - log_alpha[1]
            = SumTo([i \in 1..BatchRows |->
                       last'.arg[1][i] + SuppliedOrDefault(cfg)], BatchRows) * Unit]_vars

\* how many of the rows the batches hold are cell c
TimesYielded(batches, c) ==
    Cardinality({<<b, j>> \in (1..Len(batches)) \X BatchSizeArgs :
                    j <= Len(batches[b]) /\ batches[b][j] = c})

\* C21 -- Feed-forward batching.  Once a complete rollout is stored (no
\* recurrent keys), a pass over feed_forward_generator(batch_size) with
\* batch_size <= N = num_steps * num_processes yields each of the N stored
\* (step, process) samples exactly once, every batch of batch_size rows but
\* the last, which holds N mod batch_size rows when that is not zero; with
\* batch_size > N the pass fails.  A pass is the next() calls on one
\* generator up to StopIteration with no insert() in between.
C21_FeedForwardBatches ==
    [][(last'.op = "next" /\ gen # None
          /\ gen[1].fn = "feed_forward_generator"
          /\ CompleteRollout(rollout) /\ ~rollout.recurrent) =>
        LET n == rollout.num_steps * rollout.num_processes
            batch_size == gen[1].batch_size
        IN  /\ (~gen[1].started /\ batch_size > n) =>
                  (last'.err \notin {"none", "StopIteration"} /\ yielded' = <<>>)
            /\ (~gen[1].started /\ batch_size <= n) =>
                  (last'.err = "none" /\ Len(yielded') = 1)
            /\ (gen[1].started /\ gen[1].began = rollout.inserted
                   /\ last'.err = "StopIteration") =>
                 /\ \A step \in 0..(rollout.num_steps - 1),
                       process \in 0..(rollout.num_processes - 1) :
                       TimesYielded(yielded', Cell(rollout, step, process)) = 1
                 /\ Len(yielded') = (n + batch_size - 1) \div batch_size
                 /\ \A b \in 1..Len(yielded') :
                       Len(yielded'[b]) =
                          IF b < Len(yielded') \/ n % batch_size = 0
                          THEN batch_size ELSE n % batch_size]_vars

\* C23 -- With observation normalization enabled, every observation given to
\* a critic or a value network inside one loss computation has gone through
\* the running normalizer: the inputs of Q1, Q2 and V at ob, and the input of
\* V_targ at next_ob.
C23_NormalizedInputs ==
    (last.loss /\ cfg.norm_obs) =>
        /\ \A net \in {"qf1", "qf2", "vf", "target_vf"} :
              \E call \in last.inputs : call.net = net
        /\ \A call \in last.inputs :
              call.net \in {"qf1", "qf2", "vf", "target_vf"} => call.normed

\* C25 -- Terminal masking.  For a batch row with done = 1 the critic target
\* is reward_scale * r whatever V_targ(next_ob) is; for a row with done = 0 it
\* is reward_scale * r + gamma * V_targ(next_ob); both critics regress to this
\* same target.
C25_TerminalMasking ==
    [][last'.op = "qtarg" =>
        LET rows == last'.arg[1] IN
        /\ last'.qtarg.qf1 = last'.qtarg.qf2
        /\ DOMAIN last'.qtarg.qf1 = DOMAIN rows
        /\ \A i \in DOMAIN rows :
              /\ rows[i].done = 1 =>
                    last'.qtarg.qf1[i] = cfg.reward_scale * rows[i].rew
              /\ rows[i].done = 0 =>
                    last'.qtarg.qf1[i] * cfg.gamma.den =
                       cfg.reward_scale * rows[i].rew * cfg.gamma.den
                         + cfg.gamma.num * rows[i].vtarg]_vars

\* a batch with a terminal row and a non-terminal row, both with a non-zero
\* V_targ(next_ob), has had its critic targets computed
C25_Witness ==
    /\ last.op = "qtarg"
    /\ \E i, j \in DOMAIN last.arg[1] :
          /\ last.arg[1][i].done = 1 /\ last.arg[1][i].vtarg # 0
          /\ last.arg[1][j].done = 0 /\ last.arg[1][j].vtarg # 0
          /\ last.qtarg.qf1[i] # last.qtarg.qf1[j]

\* C22 -- Observation-normalizer window.  Whenever the normalizer update
\* fires in act() (normalization enabled and t mod 128 = 0), the observations
\* averaged are exactly the 128 most recently stored ones, oldest first: one
\* slice when the window does not wrap, the tail then the head when it wraps
\* past the start of the circular buffer, for every capacity and position.
C22_NormWindow ==
    [][(last'.op = "act" /\ cfg.norm_obs /\ t' % NormPeriod = 0) =>
        /\ last'.window # None
        /\ Len(last'.window[1]) = NormPeriod
        /\ \A j \in 1..Len(last'.window[1]) :
              last'.window[1][j] =
                 (buffer'.next_idx + NormPeriod * cfg.buffer_size
                    - NormPeriod + j - 1) % cfg.buffer_size
        /\ \A j, k \in 1..Len(last'.window[1]) :
              last'.window[1][j] = last'.window[1][k] => j = k]_vars

====
